---- MODULE Spec2Model ----
(***************************************************************************)
(* A model of the sequence combinators of common-utils.                    *)
(*                                                                         *)
(* Two revisions of the library are modelled side by side:                 *)
(*   - the iterator-backed one (generators: take, slice, nth, drop,        *)
(*     dropRight, cat, construct, map, flatMap, interpose, reverse,        *)
(*     reduce), and                                                        *)
(*   - the array-backed one (nth, first, drop, cat, construct, mapCat,     *)
(*     dropRight, interpose over Arrays).                                  *)
(*                                                                         *)
(* Generators are modelled at the granularity of the iteration protocol:   *)
(* one action is one pass through a generator's loop body, and `pulled`    *)
(* counts the elements obtained from the source iterator.  Plain functions *)
(* are operators, computed the way the code computes them, and are applied *)
(* by a single call action.                                                *)
(***************************************************************************)
EXTENDS Integers, Sequences, FiniteSets, TLC

\* ------------------------------------------------------------------ bounds
MaxLen == 4      \* longest materialized source
MaxVal == 4      \* elements are drawn from 1..MaxVal
MaxCount == 4    \* largest count / index argument
MaxPull == 6     \* cap on the elements pulled from an infinite source
MaxPass == 3     \* most iterations the consumer makes over one sequence object
MaxKeys == 2     \* longest key list given to pick

Vals == 1..MaxVal
Arrays == UNION {[1..n -> Vals] : n \in 0..MaxLen}
Counts == (0 - 1)..MaxCount

\* A source is a materialized array or the generator infinity(start).
ArraySrc(s) == [kind |-> "array", items |-> s, start |-> 0]
InfinitySrc(s) == [kind |-> "infinity", items |-> <<>>, start |-> s]
FiniteSources == {ArraySrc(s) : s \in Arrays}
Sources == FiniteSources \cup {InfinitySrc(s) : s \in 0..1}

\* ------------------------------------------------------ iteration protocol
\* infinity(start): the p-th value yielded (p = 0, 1, ...) is start + p.
InfinityAt(s, p) == s + p

\* iterator.next().done after p elements have been pulled
SrcDone(it, p) == it.kind = "array" /\ p >= Len(it.items)

\* iterator.next().value after p elements have been pulled; the value of a
\* done iterator is undefined, written 0 here (no array element is 0).
SrcElem(it, p) ==
  IF it.kind = "array"
    THEN (IF p < Len(it.items) THEN it.items[p + 1] ELSE 0)
    ELSE InfinityAt(it.start, p)

VARIABLES
  op,           \* the function under call ("idle" before any call)
  variant,      \* "iter" (generator revision) or "array" (array revision)
  iterable,     \* the source argument
  count,        \* take / drop / dropRight: the count argument
  start,        \* slice: start
  end,          \* slice: end
  index,        \* slice, reduce: the running index; nth: the index argument
  cnt,          \* take: the local _count
  fn,           \* reduce: the reducer; flatMap: the mapper; interpose: the inserter
  hasInitial,   \* reduce: called with an initial value
  initial,      \* reduce: the initial value
  accumulator,  \* reduce: the accumulator
  calls,        \* reduce: the reducer's invocations, <<acc, item, index>> each
  subs,         \* flatMap: the sub-sequences spread into cat's arguments
  requests,     \* consumer next() calls made on the returned generator
  pulled,       \* elements obtained from the source iterator
  out,          \* elements yielded to the consumer so far
  status,       \* "idle" | "spread" | "run" | "done" | "threw"
  ret,          \* value returned by a plain function
  passes,       \* repeated iteration: the elements each completed pass obtained
  input,        \* the contents of the materialized array passed to combinators
  args          \* pick: keys and obj; converter: x and y

vars == <<op, variant, iterable, count, start, end, index, cnt, fn, hasInitial,
          initial, accumulator, calls, subs, requests, pulled, out, status, ret,
          passes, input, args>>

\* ------------------------------------------------------------ return values
Ok(v) == [threw |-> FALSE, undef |-> FALSE, val |-> v, msg |-> ""]
Undefined == [threw |-> FALSE, undef |-> TRUE, val |-> 0, msg |-> ""]
Throw(m) == [threw |-> TRUE, undef |-> FALSE, val |-> 0, msg |-> m]

Init ==
  /\ op = "idle"
  /\ variant = "iter"
  /\ iterable = ArraySrc(<<>>)
  /\ count = 0
  /\ start = 0
  /\ end = 0
  /\ index = 0
  /\ cnt = 0
  /\ fn = "none"
  /\ hasInitial = FALSE
  /\ initial = 0
  /\ accumulator = 0
  /\ calls = <<>>
  /\ subs = <<>>
  /\ requests = 0
  /\ pulled = 0
  /\ out = <<>>
  /\ status = "idle"
  /\ ret = Undefined
  /\ passes = <<>>
  /\ input = <<>>
  /\ args = [keys |-> <<>>, obj |-> [own |-> <<>>, inherited |-> {}],
             orig |-> [own |-> <<>>, inherited |-> {}], x |-> 0, y |-> 0]

\* An infinite source never ends: the model stops pulling from it at MaxPull.
PullAllowed == iterable.kind = "infinity" => pulled < MaxPull

\* ---------------------------------------------------------------- take
\* take(count, iter) / limit(limit, iter): calling a generator function runs
\* none of its body; _count = 0 is set on the first next().
CallTake ==
  /\ op = "idle"
  /\ \E n \in Counts, it \in Sources :
       /\ count' = n
       /\ iterable' = it
  /\ op' = "take"
  /\ status' = "run"
  /\ UNCHANGED <<passes, input, args>>
  /\ UNCHANGED <<variant, start, end, index, cnt, fn, hasInitial, initial,
                 accumulator, calls, subs, requests, pulled, out, ret>>

\* Mutant of TakeReached: the test is off by one, `_count === count + 1`.
TakeReachedLate(c, n) == c = n + 1

\* `if (_count === count) return;`
TakeReached(c, n) == c = n

\* One consumer next() on take: the for-of pulls the next source element,
\* then the loop body either returns or yields it.
TakeNext ==
  /\ op = "take"
  /\ status = "run"
  /\ PullAllowed
  /\ requests' = requests + 1
  /\ IF SrcDone(iterable, pulled)
       THEN /\ status' = "done"
            /\ UNCHANGED <<pulled, out, cnt>>
       ELSE /\ pulled' = pulled + 1
            /\ IF TakeReached(cnt, count)
                 THEN /\ status' = "done"
                      /\ UNCHANGED <<out, cnt>>
                 ELSE /\ out' = Append(out, SrcElem(iterable, pulled))
                      /\ cnt' = cnt + 1
                      /\ status' = "run"
  /\ UNCHANGED <<passes, input, args>>
  /\ UNCHANGED <<op, variant, iterable, count, start, end, index, fn,
                 hasInitial, initial, accumulator, calls, subs, ret>>

\* ---------------------------------------------------------------- slice
CallSlice ==
  /\ op = "idle"
  /\ \E s \in Counts, e \in Counts, it \in Sources :
       /\ start' = s
       /\ end' = e
       /\ iterable' = it
  /\ op' = "slice"
  /\ status' = "run"
  /\ UNCHANGED <<passes, input, args>>
  /\ UNCHANGED <<variant, count, index, cnt, fn, hasInitial, initial,
                 accumulator, calls, subs, requests, pulled, out, ret>>

\* Mutant of SliceInWindow: a half-open window, `index < end`.
SliceHalfOpen(s, e, i) == s <= i /\ i < e

\* `if (start <= index && index <= end)`
SliceInWindow(s, e, i) == s <= i /\ i <= e

\* One pass through slice's loop: pull an element, yield it when its index
\* is in the window, advance the index.
SliceStep ==
  /\ op = "slice"
  /\ status = "run"
  /\ PullAllowed
  /\ IF SrcDone(iterable, pulled)
       THEN /\ status' = "done"
            /\ UNCHANGED <<pulled, out, index>>
       ELSE /\ pulled' = pulled + 1
            /\ out' = IF SliceInWindow(start, end, index)
                        THEN Append(out, SrcElem(iterable, pulled))
                        ELSE out
            /\ index' = index + 1
            /\ status' = "run"
  /\ UNCHANGED <<passes, input, args>>
  /\ UNCHANGED <<op, variant, iterable, count, start, end, cnt, fn, hasInitial,
                 initial, accumulator, calls, subs, requests, ret>>

\* ---------------------------------------------------------------- reduce
\* The reducers the model calls reduce with; none reads its index argument.
\*   "add":   (acc, item) => acc + item
\*   "shift": (acc, item) => acc * 2 + item   (order-sensitive)
Reducers == {"add", "shift"}
Reducer(f, acc, item) == IF f = "add" THEN acc + item ELSE acc * 2 + item

\* Mutant of FirstDone: the emptiness check is missing.
FirstDoneNever(it) == FALSE

\* `if (first.done) throw new TypeError(...)`
FirstDone(it) == SrcDone(it, 0)

\* reduce(reducer, iterable): the first element seeds the accumulator, or the
\* call throws on an empty iterable.  reduce(reducer, initial, iterable): the
\* initial value seeds it.  `let index = 0` in both.
CallReduce ==
  /\ op = "idle"
  /\ \E f \in Reducers, h \in BOOLEAN, i \in 0..1, it \in FiniteSources :
       /\ fn' = f
       /\ hasInitial' = h
       /\ initial' = IF h THEN i ELSE 0
       /\ iterable' = it
       /\ IF h
            THEN /\ accumulator' = i
                 /\ pulled' = 0
                 /\ status' = "run"
            ELSE IF FirstDone(it)
                   THEN /\ accumulator' = 0
                        /\ pulled' = 0
                        /\ status' = "threw"
                   ELSE /\ accumulator' = SrcElem(it, 0)
                        /\ pulled' = 1
                        /\ status' = "run"
  /\ op' = "reduce"
  /\ UNCHANGED <<passes, input, args>>
  /\ UNCHANGED <<variant, count, start, end, index, cnt, calls, subs, requests,
                 out, ret>>

\* Mutant of ReducerIndex: both forms pre-increment.
ReducerIndexPreIncrement(h, i) == i + 1

\* The index the reducer is passed: `++index` in the form without an initial
\* value, `index++` in the form with one.
ReducerIndex(h, i) == IF h THEN i ELSE i + 1

\* Mutant of ReduceFold: the accumulator and the item are swapped.
ReduceFoldSwapped(f, acc, item) == Reducer(f, item, acc)

\* `accumulator = reducer(accumulator, item, ...)`
ReduceFold(f, acc, item) == Reducer(f, acc, item)

\* One pass through reduce's loop (either form): pull the next element; fold
\* it in, or return the accumulator when the iterator is done.
ReduceStep ==
  /\ op = "reduce"
  /\ status = "run"
  /\ IF SrcDone(iterable, pulled)
       THEN /\ status' = "done"
            /\ ret' = Ok(accumulator)
            /\ UNCHANGED <<pulled, accumulator, index, calls>>
       ELSE /\ pulled' = pulled + 1
            /\ calls' = Append(calls, [acc |-> accumulator,
                                       item |-> SrcElem(iterable, pulled),
                                       index |-> ReducerIndex(hasInitial, index)])
            /\ accumulator' = ReduceFold(fn, accumulator, SrcElem(iterable, pulled))
            /\ index' = index + 1
            /\ status' = "run"
            /\ UNCHANGED ret
  /\ UNCHANGED <<passes, input, args>>
  /\ UNCHANGED <<op, variant, iterable, count, start, end, cnt, fn, hasInitial,
                 initial, subs, requests, out>>

\* ------------------------------------------ iterator-backed combinators
\* The value a generator yields when it is consumed to the end, as a sequence.

\* toArray(iter): Array.from collects the elements in iteration order.
RECURSIVE Collect(_, _)
Collect(s, i) == IF i > Len(s) THEN <<>> ELSE <<s[i]>> \o Collect(s, i + 1)
ToArray(s) == Collect(s, 1)

\* Mutant of ArrayReverse: the array is left in its original order.
ArrayReverseMissing(a) == a

\* Array.prototype.reverse
ArrayReverse(a) == [i \in 1..Len(a) |-> a[Len(a) + 1 - i]]

\* reverse(iterable): toArray(iterable).reverse(), then yielded in order
Reverse(s) == ArrayReverse(ToArray(s))

\* drop(count, iterable): `if (_count <= 0) yield e; _count -= 1` per element
RECURSIVE DropLoop(_, _, _)
DropLoop(c, s, i) ==
  IF i > Len(s) THEN <<>>
  ELSE (IF c <= 0 THEN <<s[i]>> ELSE <<>>) \o DropLoop(c - 1, s, i + 1)
Drop(n, s) == DropLoop(n, s, 1)

\* dropRight(count, iterable): reverse(drop(count, reverse(iterable)))
DropRight(n, s) == Reverse(Drop(n, Reverse(s)))

\* cat(...iterables): every element of every iterable, in argument order
RECURSIVE CatLoop(_, _)
CatLoop(ls, i) == IF i > Len(ls) THEN <<>> ELSE ToArray(ls[i]) \o CatLoop(ls, i + 1)
Cat(ls) == CatLoop(ls, 1)

\* construct(head, tails): cat([head], tails)
Construct(h, ts) == Cat(<<<<h>>, ts>>)

\* The inserters interpose is called with: "neg" is n => -n, "zero" is () => 0.
Inserters == {"neg", "zero"}
Inserter(f, e) == IF f = "neg" THEN 0 - e ELSE 0

\* The mappers map / flatMap are called with:
\*   "pair":            n => [n, -n]
\*   [inserter |-> f]:  e => construct(e, [inserter(e)])   (interpose's mapper)
PairMapper == [kind |-> "pair", inserter |-> "none"]
InterposeMapper(f) == [kind |-> "construct", inserter |-> f]
Mapper(m, e) ==
  IF m.kind = "pair" THEN <<e, 0 - e>>
  ELSE Construct(e, <<Inserter(m.inserter, e)>>)

\* map(mapper, iterable): mapper(e) for every e, in order
RECURSIVE MapLoop(_, _, _)
MapLoop(m, s, i) ==
  IF i > Len(s) THEN <<>> ELSE <<Mapper(m, s[i])>> \o MapLoop(m, s, i + 1)
Map(m, s) == MapLoop(m, s, 1)

\* flatMap(mapper, iterable): cat(...map(mapper, iterable))
FlatMap(m, s) == Cat(Map(m, s))

\* interpose(inserter, iterable)
Interpose(f, s) == DropRight(1, FlatMap(InterposeMapper(f), s))

\* nth(index, iterable): the loop returns e when i === index; falling off the
\* end of the loop returns undefined.
RECURSIVE NthLoop(_, _, _)
NthLoop(n, s, i) ==
  IF i >= Len(s) THEN Undefined
  ELSE IF i = n THEN Ok(s[i + 1]) ELSE NthLoop(n, s, i + 1)
\* Mutant of Nth: the loop counter starts at 1.
NthFromOne(n, s) == NthLoop(n, s, 1)
Nth(n, s) == NthLoop(n, s, 0)

\* first(iterable)
First(s) == Nth(0, s)

\* ----------------------------------------------- array-backed combinators
\* nth(index, list): indices are numbers and lists are Arrays in this model,
\* so of the three guards only the bound check can throw.
NthOutOfBound(n, list) == n < 0 \/ n > Len(list) - 1
\* list[index]: undefined outside 0..length-1
ArrayGet(list, n) == IF 0 <= n /\ n < Len(list) THEN Ok(list[n + 1]) ELSE Undefined
NthArr(n, list) ==
  IF NthOutOfBound(n, list) THEN Throw("index is out of bound") ELSE ArrayGet(list, n)

\* first(list)
FirstArr(list) == NthArr(0, list)

\* Array.prototype.slice(begin, end): a negative bound counts from the end,
\* and both bounds are clamped to 0..length.
RelativeIndex(k, len) ==
  IF k < 0 THEN (IF len + k < 0 THEN 0 ELSE len + k)
  ELSE (IF k > len THEN len ELSE k)
ArraySlice(a, b, e) ==
  LET from == RelativeIndex(b, Len(a))
      to == RelativeIndex(e, Len(a))
  IN IF from >= to THEN <<>> ELSE [i \in 1..(to - from) |-> a[from + i]]

\* drop(length, iterable): arr.slice(length, arr.length)
DropArr(n, s) == ArraySlice(ToArray(s), n, Len(ToArray(s)))

\* Array.prototype.concat(...lists)
RECURSIVE ConcatLoop(_, _, _)
ConcatLoop(h, ls, i) == IF i > Len(ls) THEN h ELSE ConcatLoop(h \o ls[i], ls, i + 1)
ArrayConcat(h, ls) == ConcatLoop(h, ls, 1)

\* cat(...lists): head = first(lists); head.concat(...drop(1, lists)) when
\* the head exists, [] otherwise.  An exception of first propagates.
CatArr(lists) ==
  LET head == FirstArr(lists)
  IN IF head.threw THEN head
     ELSE IF ~head.undef THEN Ok(ArrayConcat(head.val, DropArr(1, lists)))
     ELSE Ok(<<>>)

\* construct(head, tails): cat([head], Array.from(tails))
ConstructArr(h, ts) == CatArr(<<<<h>>, ToArray(ts)>>)

\* interpose's mapper: (e) => construct(e, [inserter(e)])
MapperArr(f, e) == ConstructArr(e, <<Inserter(f, e)>>)

\* mapCat(f, iterable): cat(...Array.from(iterable).map(f))
MapCatArr(f, s) ==
  LET rs == [i \in 1..Len(s) |-> MapperArr(f, ToArray(s)[i])]
  IN IF \E i \in 1..Len(rs) : rs[i].threw
       THEN Throw("index is out of bound")
       ELSE CatArr([i \in 1..Len(rs) |-> rs[i].val])

\* dropRight(length, iterable): arr.slice(0, arr.length - length)
DropRightArr(n, s) == ArraySlice(ToArray(s), 0, Len(ToArray(s)) - n)

\* interpose(inserter, collection): dropRight(1, mapCat(..., collection))
InterposeArr(f, s) ==
  LET mc == MapCatArr(f, s)
  IN IF mc.threw THEN mc ELSE Ok(DropRightArr(1, mc.val))

\* --------------------------------------------------- plain function calls
Variants == {"iter", "array"}

\* nth(index, seq) in either revision
CallNth ==
  /\ op = "idle"
  /\ \E v \in Variants, n \in Counts, s \in Arrays :
       /\ variant' = v
       /\ index' = n
       /\ iterable' = ArraySrc(s)
       /\ ret' = IF v = "iter" THEN Nth(n, s) ELSE NthArr(n, s)
  /\ op' = "nth"
  /\ status' = IF ret'.threw THEN "threw" ELSE "done"
  /\ UNCHANGED <<passes, input, args>>
  /\ UNCHANGED <<count, start, end, cnt, fn, hasInitial, initial, accumulator,
                 calls, subs, requests, pulled, out>>

\* first(seq) in either revision
CallFirst ==
  /\ op = "idle"
  /\ \E v \in Variants, s \in Arrays :
       /\ variant' = v
       /\ iterable' = ArraySrc(s)
       /\ ret' = IF v = "iter" THEN First(s) ELSE FirstArr(s)
  /\ op' = "first"
  /\ status' = IF ret'.threw THEN "threw" ELSE "done"
  /\ UNCHANGED <<passes, input, args>>
  /\ UNCHANGED <<count, start, end, index, cnt, fn, hasInitial, initial,
                 accumulator, calls, subs, requests, pulled, out>>

\* toArray(dropRight(count, seq)) in the iterator revision,
\* dropRight(length, seq) in the array revision
CallDropRight ==
  /\ op = "idle"
  /\ \E v \in Variants, n \in 0..MaxCount, s \in Arrays :
       /\ variant' = v
       /\ count' = n
       /\ iterable' = ArraySrc(s)
       /\ ret' = IF v = "iter" THEN Ok(ToArray(DropRight(n, s)))
                 ELSE Ok(DropRightArr(n, s))
  /\ op' = "dropRight"
  /\ status' = "done"
  /\ UNCHANGED <<passes, input, args>>
  /\ UNCHANGED <<start, end, index, cnt, fn, hasInitial, initial, accumulator,
                 calls, subs, requests, pulled, out>>

\* toArray(interpose(inserter, seq)) in the iterator revision,
\* interpose(inserter, seq) in the array revision
CallInterpose ==
  /\ op = "idle"
  /\ \E v \in Variants, f \in Inserters, s \in Arrays :
       /\ variant' = v
       /\ fn' = f
       /\ iterable' = ArraySrc(s)
       /\ ret' = IF v = "iter" THEN Ok(ToArray(Interpose(f, s)))
                 ELSE InterposeArr(f, s)
  /\ op' = "interpose"
  /\ status' = IF ret'.threw THEN "threw" ELSE "done"
  /\ UNCHANGED <<passes, input, args>>
  /\ UNCHANGED <<count, start, end, index, cnt, hasInitial, initial,
                 accumulator, calls, subs, requests, pulled, out>>

\* ---------------------------------------------------------------- flatMap
\* flatMap(mapper, iterable) is a plain function: its body evaluates the
\* argument list of cat, and the spread `...map(mapper, iterable)` iterates
\* the map generator to its end before cat is called.
CallFlatMap ==
  /\ op = "idle"
  /\ \E it \in Sources : iterable' = it
  /\ fn' = "pair"
  /\ op' = "flatMap"
  /\ status' = "spread"
  /\ UNCHANGED <<passes, input, args>>
  /\ UNCHANGED <<variant, count, start, end, index, cnt, hasInitial, initial,
                 accumulator, calls, subs, requests, pulled, out, ret>>

\* One element of the spread: map pulls a source element and yields
\* mapper(e); when map is done, cat(...) is called and flatMap returns the
\* (not yet started) cat generator.
FlatMapSpread ==
  /\ op = "flatMap"
  /\ status = "spread"
  /\ PullAllowed
  /\ IF SrcDone(iterable, pulled)
       THEN /\ status' = "run"
            /\ UNCHANGED <<pulled, subs>>
       ELSE /\ pulled' = pulled + 1
            /\ subs' = Append(subs, Mapper(PairMapper, SrcElem(iterable, pulled)))
            /\ status' = "spread"
  /\ UNCHANGED <<passes, input, args>>
  /\ UNCHANGED <<op, variant, iterable, count, start, end, index, cnt, fn,
                 hasInitial, initial, accumulator, calls, requests, out, ret>>

\* One consumer next() on the cat generator flatMap returned: the next
\* element of the spread sub-sequences, in order, or done.
CatNext ==
  /\ op = "flatMap"
  /\ status = "run"
  /\ requests' = requests + 1
  /\ IF Len(out) < Len(Cat(subs))
       THEN /\ out' = Append(out, Cat(subs)[Len(out) + 1])
            /\ status' = "run"
       ELSE /\ status' = "done"
            /\ UNCHANGED out
  /\ UNCHANGED <<passes, input, args>>
  /\ UNCHANGED <<op, variant, iterable, count, start, end, index, cnt, fn,
                 hasInitial, initial, accumulator, calls, subs, pulled, ret>>

\* ------------------------------------------------------ repeated iteration
\* The consumer iterates one sequence object several times (for-of or toArray
\* each time).  The object is the array itself, or the generator object
\* map((n) => -n, array).

\* Mutant of FreshIterator: a generator object hands out a new iterator too.
FreshIteratorAlways(v) == TRUE

\* seq[Symbol.iterator](): an Array returns a new iterator positioned at its
\* first element; the object a generator function (function*) returns is its
\* own iterator and returns itself, in whatever state it is.
FreshIterator(v) == v = "array"

CallIterate ==
  /\ op = "idle"
  /\ \E v \in Variants, s \in Arrays :
       /\ variant' = v
       /\ iterable' = ArraySrc(s)
  /\ fn' = "neg"
  /\ op' = "iterate"
  /\ status' = "run"
  /\ UNCHANGED <<passes, input, args>>
  /\ UNCHANGED <<count, start, end, index, cnt, hasInitial, initial,
                 accumulator, calls, subs, requests, pulled, out, ret>>

\* One next() of the current pass.  A completed generator, or an iterator at
\* the end of its source, answers done: the pass ends and the consumer starts
\* the next one.  Otherwise the array iterator hands out the element and
\* map's loop body yields mapper(e).
IterateNext ==
  /\ op = "iterate"
  /\ Len(passes) < MaxPass
  /\ requests' = requests + 1
  /\ IF status = "done" \/ SrcDone(iterable, pulled)
       THEN /\ passes' = Append(passes, out)
            /\ out' = <<>>
            /\ pulled' = IF FreshIterator(variant) THEN 0 ELSE pulled
            /\ status' = IF FreshIterator(variant) THEN "run" ELSE "done"
       ELSE /\ out' = Append(out, IF variant = "iter"
                                    THEN Inserter(fn, SrcElem(iterable, pulled))
                                    ELSE SrcElem(iterable, pulled))
            /\ pulled' = pulled + 1
            /\ UNCHANGED <<passes, status>>
  /\ UNCHANGED <<input, args>>
  /\ UNCHANGED <<op, variant, iterable, count, start, end, index, cnt, fn,
                 hasInitial, initial, accumulator, calls, subs, ret>>

\* --------------------------------------------- combinators and their input
\* Arrays are objects: h is a heap, a sequence of arrays addressed by their
\* position, and the materialized input of a call is h[1].  Generators hand
\* their elements on by value.

\* Mutant of HeapArrayFrom: no copy is made, the array itself is used.
HeapAlias(h, r) == [h |-> h, ref |-> r]

\* Array.from(iterable) (toArray): a new array holding the elements.
HeapArrayFrom(h, r) == [h |-> Append(h, ToArray(h[r])), ref |-> Len(h) + 1]

\* array.reverse(): reverses the array in place and returns it.
HeapReverse(h, r) == [h |-> [h EXCEPT ![r] = ArrayReverse(h[r])], ref |-> r]

\* reverse(iterable) over the array h[r]: toArray(iterable).reverse()
HeapReverseOf(h, r) ==
  LET a == HeapArrayFrom(h, r) IN HeapReverse(a.h, a.ref)

Combinators ==
  {"reverse", "dropRight", "drop", "cat", "construct", "flatMap", "interpose",
   "toArray"}

\* The heap and the result after combinator c of revision v is applied to the
\* array h[1] (with count n where it takes one) and its result is consumed.
\* Only reverse writes to an array; slice, concat, map and for-of read.
CombinatorEffect(c, v, n, h) ==
  IF v = "iter" THEN
    CASE c = "reverse" ->
           LET a == HeapReverseOf(h, 1) IN [h |-> a.h, res |-> Ok(a.h[a.ref])]
      [] c = "dropRight" ->
           LET a == HeapReverseOf(h, 1)
           IN [h |-> a.h, res |-> Ok(Reverse(Drop(n, a.h[a.ref])))]
      [] c = "drop" -> [h |-> h, res |-> Ok(Drop(n, h[1]))]
      [] c = "cat" -> [h |-> h, res |-> Ok(Cat(<<h[1], h[1]>>))]
      [] c = "construct" -> [h |-> h, res |-> Ok(Construct(n, h[1]))]
      [] c = "flatMap" -> [h |-> h, res |-> Ok(FlatMap(PairMapper, h[1]))]
      [] c = "interpose" -> [h |-> h, res |-> Ok(Interpose("neg", h[1]))]
      [] OTHER ->
           LET a == HeapArrayFrom(h, 1) IN [h |-> a.h, res |-> Ok(a.h[a.ref])]
  ELSE
    CASE c = "dropRight" ->
           LET a == HeapArrayFrom(h, 1)
           IN [h |-> a.h, res |-> Ok(DropRightArr(n, a.h[a.ref]))]
      [] c = "drop" ->
           LET a == HeapArrayFrom(h, 1)
           IN [h |-> a.h, res |-> Ok(DropArr(n, a.h[a.ref]))]
      [] c = "cat" -> [h |-> h, res |-> CatArr(<<h[1], h[1]>>)]
      [] c = "construct" ->
           LET a == HeapArrayFrom(h, 1)
           IN [h |-> a.h, res |-> ConstructArr(n, a.h[a.ref])]
      [] c = "flatMap" ->
           LET a == HeapArrayFrom(h, 1)
           IN [h |-> a.h, res |-> MapCatArr("neg", a.h[a.ref])]
      [] c = "interpose" ->
           LET a == HeapArrayFrom(h, 1)
           IN [h |-> a.h, res |-> InterposeArr("neg", a.h[a.ref])]
      [] OTHER ->
           LET a == HeapArrayFrom(h, 1) IN [h |-> a.h, res |-> Ok(a.h[a.ref])]

\* The arrays the combinators are applied to, and the count (or head) each
\* is called with.
FrameArrays == {s \in Arrays : Len(s) < MaxLen}
FrameCounts(c) == IF c \in {"drop", "dropRight"} THEN {0, 1, MaxCount} ELSE {1}

\* An array is built and kept by the caller.
CallFrame ==
  /\ op = "idle"
  /\ \E s \in FrameArrays :
       /\ iterable' = ArraySrc(s)
       /\ input' = s
  /\ op' = "frame"
  /\ status' = "run"
  /\ UNCHANGED <<passes, args>>
  /\ UNCHANGED <<variant, count, start, end, index, cnt, fn, hasInitial,
                 initial, accumulator, calls, subs, requests, pulled, out, ret>>

\* The caller applies one more combinator to the array and consumes the
\* result.  The array-backed revision has no reverse.
ApplyCombinator ==
  /\ op = "frame"
  /\ \E c \in Combinators, v \in Variants :
     \E n \in FrameCounts(c) :
       /\ ~(v = "array" /\ c = "reverse")
       /\ fn' = c
       /\ variant' = v
       /\ count' = n
       /\ LET e == CombinatorEffect(c, v, n, <<input>>)
          IN /\ input' = e.h[1]
             /\ ret' = e.res
  /\ UNCHANGED <<passes, args>>
  /\ UNCHANGED <<op, iterable, start, end, index, cnt, hasInitial, initial,
                 accumulator, calls, subs, requests, pulled, out, status>>

\* toArray(reverse(xs)), kept in ret, and toArray(reverse(toArray(reverse(xs)))),
\* kept in out.
CallReverse ==
  /\ op = "idle"
  /\ \E s \in Arrays :
       /\ iterable' = ArraySrc(s)
       /\ ret' = Ok(ToArray(Reverse(s)))
       /\ out' = ToArray(Reverse(ToArray(Reverse(s))))
  /\ op' = "reverse"
  /\ status' = "done"
  /\ UNCHANGED <<passes, input, args>>
  /\ UNCHANGED <<variant, count, start, end, index, cnt, fn, hasInitial,
                 initial, accumulator, calls, subs, requests, pulled>>

\* ---------------------------------------------------------------- pick
\* An object is its own properties (a function from keys to values) and the
\* keys of the data properties it inherits.  Every object here inherits from
\* Object.prototype, whose "__proto__" is an accessor property.
Keys == {"foo", "bar", "__proto__"}
Objects ==
  {[own |-> o, inherited |-> i] :
     o \in UNION {[d -> Vals] : d \in SUBSET Keys}, i \in SUBSET {"bar"}}
KeyLists == UNION {[1..n -> Keys] : n \in 0..MaxKeys}

\* Object.hasOwn(obj, key)
HasOwn(obj, key) == key \in DOMAIN obj.own

\* obj[key]: the own value, else undefined (0) here
ObjectGet(obj, key) == IF key \in DOMAIN obj.own THEN obj.own[key] ELSE 0

\* Object.assign(acc, { [key]: value }): a [[Set]] of key on acc.  The
\* computed key makes "__proto__" an own property of the source literal, but
\* setting it on acc runs the inherited __proto__ setter, which ignores a
\* number and creates no own property.
ObjectAssign(acc, key, value) ==
  IF key = "__proto__" /\ key \notin DOMAIN acc.own
    THEN acc
    ELSE [acc EXCEPT !.own = [k \in DOMAIN acc.own \cup {key} |->
                                IF k = key THEN value ELSE acc.own[k]]]

\* keys.reduce((acc, key) => hasOwn(obj, key) ? assign(acc, ...) : acc, {})
RECURSIVE PickLoop(_, _, _, _)
PickLoop(keys, obj, acc, i) ==
  IF i > Len(keys) THEN [acc |-> acc, obj |-> obj]
  ELSE PickLoop(keys, obj,
                IF HasOwn(obj, keys[i])
                  THEN ObjectAssign(acc, keys[i], ObjectGet(obj, keys[i]))
                  ELSE acc,
                i + 1)
Pick(keys, obj) == PickLoop(keys, obj, [own |-> <<>>, inherited |-> {}], 1)

CallPick ==
  /\ op = "idle"
  /\ \E ks \in KeyLists, o \in Objects :
       /\ args' = [args EXCEPT !.keys = ks, !.orig = o, !.obj = Pick(ks, o).obj]
       /\ ret' = Ok(Pick(ks, o).acc)
  /\ op' = "pick"
  /\ status' = "done"
  /\ UNCHANGED <<passes, input>>
  /\ UNCHANGED <<variant, iterable, count, start, end, index, cnt, fn,
                 hasInitial, initial, accumulator, calls, subs, requests,
                 pulled, out>>

\* ---------------------------------------------------------------- converter
\* The predicates converter is called with; "LTE" is the documented example,
\* someArray.sort(converter(LTE)).
Predicates == {"LT", "LTE", "GT", "GTE", "EQ", "NEQ", "never"}
Predicate(p, x, y) ==
  CASE p = "LT" -> x < y
    [] p = "LTE" -> x <= y
    [] p = "GT" -> x > y
    [] p = "GTE" -> x >= y
    [] p = "EQ" -> x = y
    [] p = "NEQ" -> x # y
    [] OTHER -> FALSE

\* isTruthy(value) of a boolean: the value itself
IsTruthy(b) == b

\* Mutant of Comparator: the two tests are made in the other order.
ComparatorReversedTests(p, x, y) ==
  IF IsTruthy(Predicate(p, y, x)) THEN 1
  ELSE IF IsTruthy(Predicate(p, x, y)) THEN 0 - 1
  ELSE 0

\* converter(predicate)(x, y)
Comparator(p, x, y) ==
  IF IsTruthy(Predicate(p, x, y)) THEN 0 - 1
  ELSE IF IsTruthy(Predicate(p, y, x)) THEN 1
  ELSE 0

CallConverter ==
  /\ op = "idle"
  /\ \E p \in Predicates, x \in Vals, y \in Vals :
       /\ fn' = p
       /\ args' = [args EXCEPT !.x = x, !.y = y]
       /\ ret' = Ok(Comparator(p, x, y))
  /\ op' = "converter"
  /\ status' = "done"
  /\ UNCHANGED <<passes, input>>
  /\ UNCHANGED <<variant, iterable, count, start, end, index, cnt,
                 hasInitial, initial, accumulator, calls, subs, requests,
                 pulled, out>>

\* ------------------------------------- take(end - start + 1, slice(...))
\* The consumer (toArray) iterates take, whose for-of iterates slice, whose
\* for-of iterates the source.
CallTakeSlice ==
  /\ op = "idle"
  /\ \E s \in 0..MaxCount, e \in 0..MaxCount, it \in Sources :
       /\ s <= e
       /\ start' = s
       /\ end' = e
       /\ count' = e - s + 1
       /\ iterable' = it
  /\ op' = "takeSlice"
  /\ status' = "run"
  /\ UNCHANGED <<passes, input, args>>
  /\ UNCHANGED <<variant, index, cnt, fn, hasInitial, initial, accumulator,
                 calls, subs, requests, pulled, out, ret>>

\* The consumer calls next() on take; take's for-of calls next() on slice.
TakeSliceRequest ==
  /\ op = "takeSlice"
  /\ status = "run"
  /\ requests' = requests + 1
  /\ status' = "pulling"
  /\ UNCHANGED <<passes, input, args>>
  /\ UNCHANGED <<op, variant, iterable, count, start, end, index, cnt, fn,
                 hasInitial, initial, accumulator, calls, subs, pulled, out,
                 ret>>

\* One pass through slice's loop while take waits for an element.  At the end
\* of the source slice completes, and so does take.  An element in the window
\* is yielded to take, which returns if _count === count and otherwise yields
\* it to the consumer.  An element outside the window is skipped and the loop
\* goes on.
TakeSlicePass ==
  /\ op = "takeSlice"
  /\ status = "pulling"
  /\ PullAllowed
  /\ IF SrcDone(iterable, pulled)
       THEN /\ status' = "done"
            /\ UNCHANGED <<pulled, index, out, cnt>>
       ELSE /\ pulled' = pulled + 1
            /\ index' = index + 1
            /\ IF SliceInWindow(start, end, index)
                 THEN IF TakeReached(cnt, count)
                        THEN /\ status' = "done"
                             /\ UNCHANGED <<out, cnt>>
                        ELSE /\ out' = Append(out, SrcElem(iterable, pulled))
                             /\ cnt' = cnt + 1
                             /\ status' = "run"
                 ELSE /\ status' = "pulling"
                      /\ UNCHANGED <<out, cnt>>
  /\ UNCHANGED <<passes, input, args>>
  /\ UNCHANGED <<op, variant, iterable, count, start, end, fn, hasInitial,
                 initial, accumulator, calls, subs, requests, ret>>

Next ==
  \/ CallTake
  \/ TakeNext
  \/ CallSlice
  \/ SliceStep
  \/ CallReduce
  \/ ReduceStep
  \/ CallNth
  \/ CallFirst
  \/ CallDropRight
  \/ CallInterpose
  \/ CallFlatMap
  \/ FlatMapSpread
  \/ CatNext
  \/ CallIterate
  \/ IterateNext
  \/ CallReverse
  \/ CallPick
  \/ CallConverter
  \/ CallTakeSlice
  \/ TakeSliceRequest
  \/ TakeSlicePass
  \/ CallFrame
  \/ ApplyCombinator

Spec == Init /\ [][Next]_vars

\* ======================================================================
\* Properties
\* ======================================================================
Min(a, b) == IF a < b THEN a ELSE b
Max(a, b) == IF a > b THEN a ELSE b

\* The first k elements of s (none when k <= 0, all when k >= Len(s)).
Prefix(s, k) == SubSeq(s, 1, Min(Max(k, 0), Len(s)))

\* C1 (as claimed): for every n <= 0, zero or negative, take(n, seq) yields
\* no element.
TakeNonPositiveIsEmpty ==
  (op = "take" /\ count <= 0) => out = <<>>

\* C2 (as claimed): in both call forms the reducer's third argument on its
\* k-th invocation is k, the 1-based count of folds.
ReduceIndexIsFoldCount ==
  op = "reduce" => \A k \in 1..Len(calls) : calls[k].index = k

\* C2 (amended): the reducer's third argument is the zero-based position in
\* the source of the element being folded: k on the k-th invocation of the
\* form without an initial value (folding starts at the second element),
\* k - 1 on the k-th invocation of the form with one.
ReduceIndexIsElementIndex ==
  op = "reduce" =>
    \A k \in 1..Len(calls) :
      /\ calls[k].index = (IF hasInitial THEN k - 1 ELSE k)
      /\ calls[k].item = iterable.items[calls[k].index + 1]

\* C2 witness: a finished fold with an initial value that called the reducer
\* at least twice.
ReduceIndexWitness ==
  op = "reduce" /\ hasInitial /\ status = "done" /\ Len(calls) >= 2

\* C3 (as claimed): for n >= 1, take never pulls more than n elements from
\* its source.
TakePullsAtMostCount ==
  (op = "take" /\ count >= 1) => pulled <= count

\* C4 (as claimed): flatMap pulls nothing from its source before the consumer
\* requests output, and never more elements than outputs were requested.
FlatMapIsLazy ==
  op = "flatMap" => pulled <= requests

\* x1, f(x1), x2, f(x2), ..., f(x(n-1)), xn
Interposed(f, s) ==
  [j \in 1..Max(2 * Len(s) - 1, 0) |->
     IF j % 2 = 1 THEN s[(j + 1) \div 2] ELSE Inserter(f, s[j \div 2])]

\* C5 (as claimed): in both revisions interpose(fn, x1..xn) raises nothing
\* and yields x1, fn(x1), ..., fn(x(n-1)), xn, for every n >= 0.
InterposeBetweenEach ==
  op = "interpose" =>
    /\ ~ret.threw
    /\ ret.val = Interposed(fn, iterable.items)

\* C6 (as claimed): in both revisions dropRight(n, seq) is the first
\* max(L - n, 0) elements of seq, for every n >= 0.
DropRightKeepsPrefix ==
  op = "dropRight" =>
    ret.val = Prefix(iterable.items, Len(iterable.items) - count)

\* What each revision's nth answers for index i over s.
NthExpected(v, i, s) ==
  IF 0 <= i /\ i < Len(s) THEN Ok(s[i + 1])
  ELSE IF v = "iter" THEN Undefined
  ELSE Throw("index is out of bound")

\* C7: in range, both nth revisions return the element at the zero-based
\* index; out of range, the iterator-backed nth returns undefined without
\* raising and the array-backed nth raises "index is out of bound";
\* first(seq) answers as nth(0, seq) does.
NthByVariant ==
  /\ op = "nth" => ret = NthExpected(variant, index, iterable.items)
  /\ op = "first" => ret = NthExpected(variant, 0, iterable.items)

\* C7 witness: the array-backed nth raised at the first index past the end
\* of a non-empty list.
NthWitness ==
  /\ op = "nth"
  /\ variant = "array"
  /\ index = Len(iterable.items)
  /\ index >= 1
  /\ status = "threw"

\* C8: on an empty sequence, reduce without an initial value raises at the
\* call having invoked the reducer zero times; with an initial value it
\* raises nothing and returns the initial value.
ReduceOnEmpty ==
  (op = "reduce" /\ iterable.items = <<>>) =>
    /\ calls = <<>>
    /\ IF hasInitial
         THEN /\ status # "threw"
              /\ status = "done" => (~ret.threw /\ ~ret.undef /\ ret.val = initial)
         ELSE status = "threw"

\* C8 witness: reduce without an initial value has thrown on an empty source.
ReduceOnEmptyWitness ==
  op = "reduce" /\ ~hasInitial /\ iterable.items = <<>> /\ status = "threw"

\* fn(...fn(fn(a, s[1]), s[2])..., s[n])
RECURSIVE FoldLeft(_, _, _)
FoldLeft(f, a, s) ==
  IF s = <<>> THEN a ELSE FoldLeft(f, Reducer(f, a, Head(s)), Tail(s))

\* C9: reduce is a left fold.  With an initial value the result is the left
\* fold of the whole source from it, the reducer called once per element in
\* source order; without one (n >= 1) it is the left fold of x2..xn from x1,
\* the reducer called n - 1 times starting at the second element.
ReduceIsLeftFold ==
  (op = "reduce" /\ status = "done") =>
    LET s == iterable.items
        skip == IF hasInitial THEN 0 ELSE 1
    IN /\ ~ret.threw
       /\ ret.val = (IF hasInitial THEN FoldLeft(fn, initial, s)
                     ELSE FoldLeft(fn, Head(s), Tail(s)))
       /\ Len(calls) = Len(s) - skip
       /\ \A k \in 1..Len(calls) : calls[k].item = s[k + skip]
       /\ \A k \in 1..Len(calls) :
            calls[k].acc = (IF k = 1 THEN (IF hasInitial THEN initial ELSE s[1])
                            ELSE Reducer(fn, calls[k - 1].acc, calls[k - 1].item))

\* C9 witness: summing 1, 2, 3, 4 without an initial value gave 10.
ReduceIsLeftFoldWitness ==
  /\ op = "reduce"
  /\ status = "done"
  /\ ~hasInitial
  /\ fn = "add"
  /\ iterable.items = <<1, 2, 3, 4>>
  /\ ret.val = 10
  /\ Len(calls) = 3

\* The elements of s whose zero-based index i satisfies lo <= i <= hi.
Window(s, lo, hi) == SubSeq(s, Max(lo, 0) + 1, Min(hi, Len(s) - 1) + 1)

\* C10: over a finite source slice yields exactly the elements with
\* start <= index <= end, in source order (nothing when start > end); the
\* elements below start are pulled but not output.
SliceIsInclusiveWindow ==
  (op = "slice" /\ iterable.kind = "array") =>
    /\ index = pulled
    /\ out = Window(Prefix(iterable.items, pulled), start, end)
    /\ status = "done" =>
         /\ pulled = Len(iterable.items)
         /\ out = Window(iterable.items, start, end)
         /\ start > end => out = <<>>

\* C10 witness: a finished slice whose window lies strictly inside the
\* source: elements were skipped before it and after it.
SliceWitness ==
  /\ op = "slice"
  /\ iterable.kind = "array"
  /\ status = "done"
  /\ start >= 1
  /\ end > start
  /\ end < Len(iterable.items) - 1
  /\ out = <<iterable.items[start + 1], iterable.items[start + 2]>>

\* The first k elements a source produces.
SourcePrefix(it, k) == [i \in 1..k |-> SrcElem(it, i - 1)]

\* C11: for n >= 0, take(n, seq) yields exactly the first min(n, L) source
\* elements in source order and then completes (L infinite for infinity(s),
\* where the result is s, s+1, ..., s+n-1): what has been yielded is always
\* a prefix of the source no longer than n, a running take can always take
\* its next step, the consumer needs at most n + 1 requests, and at
\* completion the output is the whole prefix.
TakeYieldsPrefix ==
  (op = "take" /\ count >= 0) =>
    /\ Len(out) <= count
    /\ out = SourcePrefix(iterable, Len(out))
    /\ requests <= count + 1
    /\ status = "run" => ENABLED TakeNext
    /\ status = "done" =>
         Len(out) = (IF iterable.kind = "array"
                       THEN Min(count, Len(iterable.items)) ELSE count)

\* C11 witness: toArray(take(3, infinity(1))) completed with 1, 2, 3.
TakeYieldsPrefixWitness ==
  /\ op = "take"
  /\ iterable.kind = "infinity"
  /\ iterable.start = 1
  /\ count = 3
  /\ status = "done"
  /\ out = <<1, 2, 3>>

\* C12: a generator-backed sequence is one-shot: its first iteration obtains
\* every element, and once it is exhausted every later iteration of the same
\* object obtains none; an array yields its full element list on every
\* iteration.
GeneratorIsOneShot ==
  op = "iterate" =>
    LET s == iterable.items
    IN \A k \in 1..Len(passes) :
         IF variant = "array" THEN passes[k] = s
         ELSE IF k = 1
           THEN passes[k] = [i \in 1..Len(s) |-> Inserter(fn, s[i])]
           ELSE passes[k] = <<>>

\* C12 witness: a generator over at least two elements was iterated three
\* times.
GeneratorIsOneShotWitness ==
  /\ op = "iterate"
  /\ variant = "iter"
  /\ Len(iterable.items) >= 2
  /\ Len(passes) >= 3

\* C13: no combinator mutates a materialized input: after any sequence of
\* calls to reverse, dropRight, drop, cat, construct, flatMap / mapCat,
\* interpose and toArray on an array, each result consumed, the array holds
\* the elements it was built with, in the same order.
InputIsNotMutated ==
  op = "frame" => input = iterable.items

\* C13 witness: reverse has just returned the reversal of an array that is
\* not its own reversal.
InputIsNotMutatedWitness ==
  /\ op = "frame"
  /\ fn = "reverse"
  /\ ~ret.threw
  /\ ret.val = ArrayReverse(iterable.items)
  /\ ret.val # iterable.items

\* C14: for every finite xs, toArray(reverse(xs)) has xs[L-1-i] at zero-based
\* position i, and reversing twice gives xs back, element for element.
ReverseTwiceIsIdentity ==
  op = "reverse" =>
    LET xs == iterable.items
        L == Len(xs)
    IN /\ Len(ret.val) = L
       /\ \A i \in 0..(L - 1) : ret.val[i + 1] = xs[(L - 1 - i) + 1]
       /\ out = xs

\* C14 witness: an array of at least three elements that differs from its
\* reversal was reversed, and reversed again.
ReverseTwiceWitness ==
  /\ op = "reverse"
  /\ Len(iterable.items) >= 3
  /\ ret.val # iterable.items
  /\ out = iterable.items

\* The keys of a list.
KeySet(ks) == {ks[i] : i \in 1..Len(ks)}

\* C15 (as claimed): for every key list and object, the own keys of
\* pick(keys, obj) are exactly the listed keys that are own properties of
\* obj, each with obj's value; absent and inherited keys are omitted; obj is
\* unchanged.
PickOwnListedKeys ==
  op = "pick" =>
    LET o == args.orig
    IN /\ ~ret.threw
       /\ DOMAIN ret.val.own = KeySet(args.keys) \cap DOMAIN o.own
       /\ \A k \in DOMAIN ret.val.own : ret.val.own[k] = o.own[k]
       /\ args.obj = o

\* The same statement for key lists without "__proto__": it holds.
PickOwnListedOrdinaryKeys ==
  (op = "pick" /\ "__proto__" \notin KeySet(args.keys)) =>
    LET o == args.orig
    IN /\ ~ret.threw
       /\ DOMAIN ret.val.own = KeySet(args.keys) \cap DOMAIN o.own
       /\ \A k \in DOMAIN ret.val.own : ret.val.own[k] = o.own[k]
       /\ args.obj = o

\* C16: converter(p)(x, y) is one of -1, 0, 1: it is 0 exactly when neither
\* p(x, y) nor p(y, x) holds, -1 whenever p(x, y) holds, and 1 when p(y, x)
\* holds and p(x, y) does not.
ConverterIsThreeWay ==
  op = "converter" =>
    LET pxy == Predicate(fn, args.x, args.y)
        pyx == Predicate(fn, args.y, args.x)
    IN /\ ~ret.threw
       /\ ret.val \in {0 - 1, 0, 1}
       /\ ret.val = 0 <=> (~pxy /\ ~pyx)
       /\ pxy => ret.val = 0 - 1
       /\ (pyx /\ ~pxy) => ret.val = 1

\* C16 witness: both directions of the predicate hold (LTE on equal values)
\* and the comparator answered -1.
ConverterIsThreeWayWitness ==
  /\ op = "converter"
  /\ fn = "LTE"
  /\ args.x = args.y
  /\ ret.val = 0 - 1

\* C17 (as claimed): consuming take(end - start + 1, slice(start, end,
\* infinity())) terminates, slice stopping to pull from the source once the
\* index has passed end: no more than one element past the window's end is
\* ever pulled.
TakeSliceStopsAfterWindow ==
  (op = "takeSlice" /\ iterable.kind = "infinity") => pulled <= end + 2

\* The window itself is delivered: the elements start..end of the source.
TakeSliceDeliversWindow ==
  (op = "takeSlice" /\ iterable.kind = "infinity" /\ pulled > end) =>
    out = [i \in 1..count |-> InfinityAt(iterable.start, start + i - 1)]

\* C18 (as claimed): the comparator built by converter is consistent for
\* every predicate, a reflexive one such as LTE included:
\* converter(p)(x, y) = -converter(p)(y, x), and converter(p)(x, x) = 0.
ComparatorIsConsistent ==
  op = "converter" =>
    /\ ret.val = 0 - Comparator(fn, args.y, args.x)
    /\ args.x = args.y => ret.val = 0

====
